---- MODULE Spec2Model ----
(***************************************************************************)
(* A model of the plug crate: the length-prefixed framing and JSON layer   *)
(* of connection.rs, the client handshake of plug.rs and the routing of    *)
(* strip.rs.                                                               *)
(*                                                                         *)
(* Bytes are the integers 0..255.  A string is the sequence of its UTF-8   *)
(* bytes; the model only builds ASCII strings.  usize is 64 bits wide, so  *)
(* "as usize" on a u64 changes nothing.                                    *)
(***************************************************************************)
EXTENDS Integers, Sequences, FiniteSets, TLC

(***************************************************************************)
(* Bounds of the model.                                                    *)
(***************************************************************************)
\* Longest raw payload a writer of the framing specification sends.
MaxLen == 2
\* Frames written on the connection of the framing specification.
MaxFrames == 2
\* Calls of Strip::plug over the life of the Strip.
MaxPlugs == 3

(***************************************************************************)
(* ASCII codes of the bytes the JSON layer produces or looks at.           *)
(***************************************************************************)
Ascii ==
    [ bs |-> 8, tab |-> 9, lf |-> 10, ff |-> 12, cr |-> 13, space |-> 32,
      quote |-> 34, slash |-> 47, zero |-> 48, backslash |-> 92,
      a |-> 97, b |-> 98, e |-> 101, f |-> 102, l |-> 108, n |-> 110,
      r |-> 114, s |-> 115, t |-> 116, u |-> 117 ]

Zeros(n) == [i \in 1..n |-> 0]

(***************************************************************************)
(* The 8-byte big-endian length prefix (write_u64 / read_u64).             *)
(***************************************************************************)
RECURSIVE Pow256(_)
Pow256(k) == IF k = 0 THEN 1 ELSE 256 * Pow256(k - 1)

\* write_u64: the 8 bytes of n, most significant first.  n is a length below
\* 2^24, so the upper five bytes are zero.
U64BE(n) == [i \in 1..8 |-> IF i <= 5 THEN 0 ELSE (n \div Pow256(8 - i)) % 256]

\* A prefix whose value is above isize::MAX (top bit set): no Vec<u8> of that
\* length exists.
AboveIsizeMax(p) == p[1] >= 128

\* read_u64 on a prefix that fits the model's integers (the upper five bytes
\* are zero); the callers test AboveIsizeMax first.
U64Value(p) ==
    IF \A i \in 1..5 : p[i] = 0
    THEN p[6] * 65536 + p[7] * 256 + p[8]
    ELSE 16777216

(***************************************************************************)
(* serde_json::to_vec on a &str / String: the quoted, escaped string.      *)
(***************************************************************************)
HexDigit(d) == IF d < 10 THEN Ascii.zero + d ELSE Ascii.a + (d - 10)

EscapeChar(ch) ==
    IF ch = Ascii.quote THEN <<Ascii.backslash, Ascii.quote>>
    ELSE IF ch = Ascii.backslash THEN <<Ascii.backslash, Ascii.backslash>>
    ELSE IF ch = Ascii.bs THEN <<Ascii.backslash, Ascii.b>>
    ELSE IF ch = Ascii.tab THEN <<Ascii.backslash, Ascii.t>>
    ELSE IF ch = Ascii.lf THEN <<Ascii.backslash, Ascii.n>>
    ELSE IF ch = Ascii.ff THEN <<Ascii.backslash, Ascii.f>>
    ELSE IF ch = Ascii.cr THEN <<Ascii.backslash, Ascii.r>>
    ELSE IF ch < Ascii.space
         THEN <<Ascii.backslash, Ascii.u, Ascii.zero, Ascii.zero,
                HexDigit(ch \div 16), HexDigit(ch % 16)>>
    ELSE <<ch>>

RECURSIVE EscapeAll(_)
EscapeAll(str) ==
    IF str = <<>> THEN <<>>
    ELSE EscapeChar(Head(str)) \o EscapeAll(Tail(str))

\* Faulty variant of the string encoder: the quotes are left out.
to_vec_str_bare(str) == EscapeAll(str)

to_vec_str(str) == <<Ascii.quote>> \o EscapeAll(str) \o <<Ascii.quote>>

(***************************************************************************)
(* serde_json::from_reader::<String>: leading whitespace, one JSON string, *)
(* trailing whitespace and nothing else.  The result is                    *)
(* [ok |-> TRUE, val |-> the string] or [ok |-> FALSE].                    *)
(***************************************************************************)
IsWs(ch) == ch \in {Ascii.space, Ascii.tab, Ascii.lf, Ascii.cr}

RECURSIVE SkipWs(_, _)
SkipWs(bytes, i) ==
    IF i <= Len(bytes) /\ IsWs(bytes[i]) THEN SkipWs(bytes, i + 1) ELSE i

HexValue(ch) ==
    IF ch >= Ascii.zero /\ ch <= Ascii.zero + 9 THEN ch - Ascii.zero
    ELSE IF ch >= Ascii.a /\ ch <= Ascii.f THEN ch - Ascii.a + 10
    ELSE IF ch >= 65 /\ ch <= 70 THEN ch - 65 + 10
    ELSE -1

DecodeErr == [ok |-> FALSE]

\* The body of a string after its opening quote, from index i on: the decoded
\* bytes so far are acc.  next is the index after the closing quote.
RECURSIVE StrBody(_, _, _)
StrBody(bytes, i, acc) ==
    IF i > Len(bytes) THEN [ok |-> FALSE, val |-> <<>>, next |-> i]
    ELSE LET ch == bytes[i] IN
      IF ch = Ascii.quote THEN [ok |-> TRUE, val |-> acc, next |-> i + 1]
      ELSE IF ch < Ascii.space \/ ch >= 128
           THEN [ok |-> FALSE, val |-> <<>>, next |-> i]
      ELSE IF ch # Ascii.backslash THEN StrBody(bytes, i + 1, Append(acc, ch))
      ELSE IF i + 1 > Len(bytes) THEN [ok |-> FALSE, val |-> <<>>, next |-> i]
      ELSE LET esc == bytes[i + 1] IN
        IF esc \in {Ascii.quote, Ascii.backslash, Ascii.slash}
        THEN StrBody(bytes, i + 2, Append(acc, esc))
        ELSE IF esc = Ascii.b THEN StrBody(bytes, i + 2, Append(acc, Ascii.bs))
        ELSE IF esc = Ascii.f THEN StrBody(bytes, i + 2, Append(acc, Ascii.ff))
        ELSE IF esc = Ascii.n THEN StrBody(bytes, i + 2, Append(acc, Ascii.lf))
        ELSE IF esc = Ascii.r THEN StrBody(bytes, i + 2, Append(acc, Ascii.cr))
        ELSE IF esc = Ascii.t THEN StrBody(bytes, i + 2, Append(acc, Ascii.tab))
        ELSE IF esc = Ascii.u /\ i + 5 <= Len(bytes)
                /\ \A k \in 2..5 : HexValue(bytes[i + k]) >= 0
                /\ HexValue(bytes[i + 2]) = 0 /\ HexValue(bytes[i + 3]) = 0
                /\ HexValue(bytes[i + 4]) < 8
             THEN StrBody(bytes, i + 6,
                          Append(acc, HexValue(bytes[i + 4]) * 16
                                      + HexValue(bytes[i + 5])))
        \* Any other escape is an error; \u escapes of non-ASCII code points
        \* are outside the byte strings the model builds.
        ELSE [ok |-> FALSE, val |-> <<>>, next |-> i]

from_reader_str(bytes) ==
    LET i0 == SkipWs(bytes, 1) IN
    IF i0 > Len(bytes) \/ bytes[i0] # Ascii.quote THEN DecodeErr
    ELSE LET body == StrBody(bytes, i0 + 1, <<>>) IN
      IF ~body.ok THEN DecodeErr
      ELSE IF SkipWs(bytes, body.next) <= Len(bytes) THEN DecodeErr
      ELSE [ok |-> TRUE, val |-> body.val]

(***************************************************************************)
(* serde_json on the other message types of the model.  A type is a        *)
(* sequence of tags: <<"Str">> is String, <<"Bool">> is bool and           *)
(* <<"Opt">> \o T is Option<T>.  A String value is its bytes, a bool is    *)
(* <<"true">> or <<"false">>, None is <<"None">> and Some(v) is            *)
(* <<"Some">> \o v.                                                        *)
(***************************************************************************)
Types == { <<"Str">>, <<"Bool">>, <<"Opt", "Bool">>, <<"Opt", "Opt", "Bool">> }

StrValues ==
    { <<>>, <<Ascii.a>>, <<Ascii.quote>>, <<Ascii.backslash, Ascii.a>>,
      <<Ascii.lf>> }

RECURSIVE ValuesOf(_)
ValuesOf(T) ==
    IF Head(T) = "Str" THEN StrValues
    ELSE IF Head(T) = "Bool" THEN { <<"true">>, <<"false">> }
    ELSE { <<"None">> } \cup { <<"Some">> \o v : v \in ValuesOf(Tail(T)) }

TrueLit == <<Ascii.t, Ascii.r, Ascii.u, Ascii.e>>
FalseLit == <<Ascii.f, Ascii.a, Ascii.l, Ascii.s, Ascii.e>>
NullLit == <<Ascii.n, Ascii.u, Ascii.l, Ascii.l>>

\* serde_json::to_vec: Option writes null for None and the bare value for Some.
RECURSIVE to_vec(_, _)
to_vec(T, v) ==
    IF Head(T) = "Str" THEN to_vec_str(v)
    ELSE IF Head(T) = "Bool"
         THEN (IF v = <<"true">> THEN TrueLit ELSE FalseLit)
    ELSE IF Head(v) = "None" THEN NullLit
    ELSE to_vec(Tail(T), Tail(v))

HasIdent(bytes, i, lit) ==
    /\ i + Len(lit) - 1 <= Len(bytes)
    /\ SubSeq(bytes, i, i + Len(lit) - 1) = lit

ParseErr == [ok |-> FALSE, val |-> <<>>, next |-> 0]

\* One value of type T from index i on (whitespace skipped first):
\* deserialize_option takes a leading n for null and None, and hands anything
\* else to the inner type; deserialize_bool takes true or false.
RECURSIVE ParseValue(_, _, _)
ParseValue(T, bytes, i) ==
    LET i0 == SkipWs(bytes, i) IN
    IF i0 > Len(bytes) THEN ParseErr
    ELSE IF Head(T) = "Opt"
         THEN IF bytes[i0] = Ascii.n
              THEN IF HasIdent(bytes, i0, NullLit)
                   THEN [ok |-> TRUE, val |-> <<"None">>, next |-> i0 + 4]
                   ELSE ParseErr
              ELSE LET inner == ParseValue(Tail(T), bytes, i0) IN
                   IF inner.ok
                   THEN [ok |-> TRUE, val |-> <<"Some">> \o inner.val,
                         next |-> inner.next]
                   ELSE ParseErr
    ELSE IF Head(T) = "Bool"
         THEN IF HasIdent(bytes, i0, TrueLit)
              THEN [ok |-> TRUE, val |-> <<"true">>, next |-> i0 + 4]
              ELSE IF HasIdent(bytes, i0, FalseLit)
              THEN [ok |-> TRUE, val |-> <<"false">>, next |-> i0 + 5]
              ELSE ParseErr
    ELSE IF bytes[i0] = Ascii.quote THEN StrBody(bytes, i0 + 1, <<>>)
    ELSE ParseErr

\* serde_json::from_reader::<T>: one value, then nothing but whitespace.
from_reader(T, bytes) ==
    LET parsed == ParseValue(T, bytes, 1) IN
    IF ~parsed.ok \/ SkipWs(bytes, parsed.next) <= Len(bytes) THEN DecodeErr
    ELSE [ok |-> TRUE, val |-> parsed.val]

(***************************************************************************)
(* The framing layer of connection.rs, as operators on the reusable buffer *)
(* and the bytes in flight.                                                *)
(***************************************************************************)
\* write (connection.rs): the bytes a completed write puts on the stream.
WireFrame(bytes) == U64BE(Len(bytes)) \o bytes

\* buffer.resize(message_size, 0) cannot produce the buffer: above isize::MAX
\* Vec panics with "capacity overflow".  Lengths from 2^24 up to isize::MAX are
\* written by no client of the model; they are taken as beyond the memory of
\* the machine (the allocation fails and the process aborts).  read does not
\* return in either case.
ResizeFails(p) == AboveIsizeMax(p) \/ U64Value(p) >= 16777216

\* Faulty variant of the resize: the buffer is always made message_size long.
Resize_exact(buf, n) ==
    IF Len(buf) < n THEN buf \o Zeros(n - Len(buf)) ELSE SubSeq(buf, 1, n)

\* if buffer.len() < message_size { buffer.resize(message_size, 0) }
Resize(buf, n) == IF Len(buf) < n THEN buf \o Zeros(n - Len(buf)) ELSE buf

\* Faulty variant of read_exact: the last n bytes of the buffer are filled.
ReadExactInto_tail(buf, n, stream) ==
    SubSeq(buf, 1, Len(buf) - n) \o SubSeq(stream, 1, n)

\* read_exact(&mut buffer[..message_size]): the first n bytes of the buffer are
\* overwritten with the next n bytes of the stream, the rest is kept.
ReadExactInto(buf, n, stream) ==
    SubSeq(stream, 1, n) \o SubSeq(buf, n + 1, Len(buf))

\* Faulty variant of the slice: the whole buffer, not its first n bytes.
SliceWhole(buf, n) == buf

\* &buffer[..message_size]
Slice(buf, n) == SubSeq(buf, 1, n)

Drop(stream, n) == SubSeq(stream, n + 1, Len(stream))

\* read_u64 / read_exact fail with an I/O error: the stream was reset, or it
\* was closed with fewer than `need` bytes left.
ReadErrors(state, stream, need) ==
    state = "reset" \/ (state = "closed" /\ Len(stream) < need)

(***************************************************************************)
(* The Strip (strip.rs): names, handlers and the HashMap of plugs.         *)
(***************************************************************************)
NameA == <<Ascii.a>>
NameB == <<Ascii.b>>
\* A name that needs an escape: the one-character string made of a quote.
NameQ == <<Ascii.quote>>
\* The names of the Plugs a Strip::plug call may register.
Names == {NameA, NameQ}
\* The names of the Plugs a client may connect with: NameB is never registered.
ClientNames == {NameA, NameB, NameQ}

Handlers == {"h1", "h2"}
NoHandler == "none"

Conns == {1, 2}

\* Faulty variant of HashMap::insert: an occupied entry is kept.
insert_keep(map, key, value) ==
    IF map[key] = NoHandler THEN [map EXCEPT ![key] = value] ELSE map

\* HashMap::insert
insert(map, key, value) == [map EXCEPT ![key] = value]

\* Faulty variant of HashMap::get: any occupied entry is found.
get_any(map, key) ==
    IF \E k \in DOMAIN map : map[k] # NoHandler
    THEN map[CHOOSE k \in DOMAIN map : map[k] # NoHandler]
    ELSE NoHandler

\* HashMap::get, NoHandler standing for None.
get(map, key) == IF key \in DOMAIN map THEN map[key] ELSE NoHandler

(***************************************************************************)
(* What a client that is not a Plug may write: a length prefix and a       *)
(* payload that need not match it or be JSON.                              *)
(***************************************************************************)
RawPayloads ==
    { to_vec_str(NameA),
      <<Ascii.space>> \o to_vec_str(NameB) \o <<Ascii.lf>>,
      <<Ascii.quote, Ascii.a>>,
      to_vec_str(NameA) \o <<Ascii.a>> }

HugePrefix == [i \in 1..8 |-> 255]

\* Whole frames, a frame cut short, a prefix no buffer can have, a prefix cut
\* short.
RawWrites ==
    { U64BE(Len(d)) \o d : d \in RawPayloads }
      \cup { U64BE(Len(to_vec_str(NameA)) + 1) \o to_vec_str(NameA),
             HugePrefix, <<0, 0, 0>> }

(***************************************************************************)
(* State.                                                                  *)
(***************************************************************************)
VARIABLES
    plugs,      \* Strip.plugs: name -> handler, NoHandler where absent
    declared,   \* history: per name, the handler of the last plug call
    nplugs,     \* history: the number of plug calls so far
    cpc,        \* per connection: where the client is
    cname,      \* per connection: the name of the client's Plug
    sent,       \* history: every byte the client wrote, in order
    wire,       \* bytes written by the client and not yet read by the server
    tx,         \* the client-to-server half of the transport
    apc,        \* per connection: where Strip::attach is
    msize,      \* attach: message_size of read
    buffer,     \* attach: the buffer
    route,      \* attach: the decoded route
    result,     \* attach: what it returned
    invoked,    \* history: the handlers attach called, in order
    hung,       \* whether the running handler never completes
    hres,       \* history: what the handler's future returned
    crd         \* per connection: the client's read of a response

vars == <<plugs, declared, nplugs, cpc, cname, sent, wire, tx, apc, msize,
          buffer, route, result, invoked, hung, hres, crd>>

\* One connection seen frame by frame: a client that seized it with a Plug
\* and writes to it, and on the server attach and then the handler reading
\* from it.
VARIABLES
    kchan,      \* the message type the client writes, or <<"Raw">>
    kname,      \* the name of the client's Plug
    kwpc,       \* where the writer is
    kcur,       \* the frame the writer is in the middle of
    kwlog,      \* history: the frames written in full, in order
    ksent,      \* history: every byte written
    kwire,      \* bytes written and not yet read
    ktx,        \* the client-to-server half of the transport
    krpc,       \* where the reader is
    kmode,      \* the read in progress: of attach, read_bytes or read
    kbuf,       \* the reader's buffer (attach's, then the Connection's)
    ksize,      \* message_size of the read in progress
    krlog       \* history: what each read returned, in order

connVars == <<kchan, kname, kwpc, kcur, kwlog, ksent, kwire, ktx, krpc, kmode,
              kbuf, ksize, krlog>>

\* A routed connection seen value by value, in both directions: the client's
\* Connection on one end, the handler's on the other.
VARIABLES
    dplug,      \* the Plug<I, O> of the channel: its two message types
    dup,        \* history: the typed frames the client wrote, in order
    ddown,      \* history: the typed frames the handler wrote, in order
    dhread,     \* history: what each read of the handler returned
    dcread      \* history: what each read of the client returned

duplexVars == <<dplug, dup, ddown, dhread, dcread>>

\* Two connections joined by Connection::connect, byte by byte.
VARIABLES
    jpc,        \* where connect is: "Joined", "Returned", "Failed", "Parked"
    jin,        \* history, per direction: the bytes the peer sent in
    jeof,       \* per direction: whether the sending peer has shut down
    jsrc,       \* per direction: bytes sent in and not yet read by the copy
    jbuf,       \* per direction: bytes read and not yet written
    jdst,       \* per direction: bytes written to the other stream
    jdone,      \* per direction: the copy saw the end and shut the other down
    jres        \* what connect returned: the two byte counts

joinVars == <<jpc, jin, jeof, jsrc, jbuf, jdst, jdone, jres>>

allVars == <<vars, connVars, duplexVars, joinVars>>

notStrip == <<connVars, duplexVars, joinVars>>
notConn == <<vars, duplexVars, joinVars>>
notDuplex == <<vars, connVars, joinVars>>
notJoin == <<vars, connVars, duplexVars>>

\* The two directions of a join: from self to with, and back.
Dirs == {"ab", "ba"}

\* The connections of the other specifications, left alone.
DuplexParked ==
    /\ dplug = [I |-> <<"Bool">>, O |-> <<"Bool">>]
    /\ dup = <<>>
    /\ ddown = <<>>
    /\ dhread = <<>>
    /\ dcread = <<>>

JoinParked ==
    /\ jpc = "Parked"
    /\ jin = [d \in Dirs |-> <<>>]
    /\ jeof = [d \in Dirs |-> FALSE]
    /\ jsrc = [d \in Dirs |-> <<>>]
    /\ jbuf = [d \in Dirs |-> <<>>]
    /\ jdst = [d \in Dirs |-> <<>>]
    /\ jdone = [d \in Dirs |-> FALSE]
    /\ jres = <<0, 0>>

stripVars == <<plugs, declared, nplugs>>
clientVars == <<cpc, cname, sent, wire, tx, crd>>
attachVars == <<apc, msize, buffer, route, result, invoked, hung, hres>>

NoName == <<>>

\* The Strip as Strip::new makes it, and no connection yet.
StripIdle ==
    /\ plugs = [n \in Names |-> NoHandler]
    /\ declared = [n \in Names |-> NoHandler]
    /\ nplugs = 0
    /\ cpc = [c \in Conns |-> "Idle"]
    /\ cname = [c \in Conns |-> NoName]
    /\ sent = [c \in Conns |-> <<>>]
    /\ wire = [c \in Conns |-> <<>>]
    /\ tx = [c \in Conns |-> "open"]
    /\ apc = [c \in Conns |-> "NotAttached"]
    /\ msize = [c \in Conns |-> 0]
    /\ buffer = [c \in Conns |-> <<>>]
    /\ route = [c \in Conns |-> NoName]
    /\ result = [c \in Conns |-> "None"]
    /\ invoked = [c \in Conns |-> <<>>]
    /\ hung = [c \in Conns |-> FALSE]
    /\ hres = [c \in Conns |-> "None"]
    /\ crd = [c \in Conns |-> "None"]

(***************************************************************************)
(* Strip::plug (strip.rs).  It takes the Strip by value, so it cannot run  *)
(* while an attach borrows the Strip.                                      *)
(***************************************************************************)
AttachEnded(c) == apc[c] \in {"NotAttached", "Done", "Panicked"}

Plug(name, handler) ==
    /\ nplugs < MaxPlugs
    /\ \A c \in Conns : AttachEnded(c)
    /\ plugs' = insert(plugs, name, handler)
    /\ declared' = [declared EXCEPT ![name] = handler]
    /\ nplugs' = nplugs + 1
    /\ UNCHANGED <<clientVars, attachVars>>
    /\ UNCHANGED notStrip

(***************************************************************************)
(* The client: Plug::connect and Plug::seize (plug.rs), then               *)
(* write_json / write (connection.rs) in two steps, one per await that can *)
(* put bytes on the stream (flush has nothing to send on a TcpStream).     *)
(***************************************************************************)
\* Plug::connect up to the established stream, or a stream obtained
\* elsewhere and handed to Plug::seize.
Connect(c, name) ==
    /\ cpc[c] = "Idle"
    /\ cpc' = [cpc EXCEPT ![c] = "Seizing"]
    /\ cname' = [cname EXCEPT ![c] = name]
    /\ UNCHANGED <<sent, wire, tx, crd, stripVars, attachVars>>
    /\ UNCHANGED notStrip

\* Faulty variant of write_json: the payload is not quoted.
write_json_bare(name) == to_vec_str_bare(name)

\* write_json: let bytes = serde_json::to_vec(&data)?
write_json_bytes(name) == to_vec_str(name)

\* write: stream.write_u64(bytes.len() as u64)
SeizeWriteLen(c) ==
    /\ cpc[c] = "Seizing"
    /\ tx[c] = "open"
    /\ LET p == U64BE(Len(write_json_bytes(cname[c]))) IN
         /\ sent' = [sent EXCEPT ![c] = @ \o p]
         /\ wire' = [wire EXCEPT ![c] = @ \o p]
    /\ cpc' = [cpc EXCEPT ![c] = "LenWritten"]
    /\ UNCHANGED <<cname, crd, tx, stripVars, attachVars>>
    /\ UNCHANGED notStrip

\* Faulty variant of seize: it returns only once the server has routed the
\* connection (as if it waited for an answer to the handshake).
SeizeWriteAll_acked(c) ==
    /\ cpc[c] = "LenWritten"
    /\ tx[c] = "open"
    /\ apc[c] = "HandlerRunning"
    /\ LET d == write_json_bytes(cname[c]) IN
         /\ sent' = [sent EXCEPT ![c] = @ \o d]
         /\ wire' = [wire EXCEPT ![c] = @ \o d]
    /\ cpc' = [cpc EXCEPT ![c] = "Connected"]
    /\ UNCHANGED <<cname, crd, tx, stripVars, attachVars>>
    /\ UNCHANGED notStrip

\* write: stream.write_all(bytes), flush; seize returns Ok(Connection).
SeizeWriteAll(c) ==
    /\ cpc[c] = "LenWritten"
    /\ tx[c] = "open"
    /\ LET d == write_json_bytes(cname[c]) IN
         /\ sent' = [sent EXCEPT ![c] = @ \o d]
         /\ wire' = [wire EXCEPT ![c] = @ \o d]
    /\ cpc' = [cpc EXCEPT ![c] = "Connected"]
    /\ UNCHANGED <<cname, crd, tx, stripVars, attachVars>>
    /\ UNCHANGED notStrip

\* A write of seize fails with an I/O error: seize returns Err and the stream
\* is dropped.
SeizeFail(c) ==
    /\ cpc[c] \in {"Seizing", "LenWritten"}
    /\ cpc' = [cpc EXCEPT ![c] = "Failed"]
    /\ tx' = [tx EXCEPT ![c] = "reset"]
    /\ UNCHANGED <<cname, crd, sent, wire, stripVars, attachVars>>
    /\ UNCHANGED notStrip

\* A client that is not a Plug writes what it likes.
RawSend(c, bytes) ==
    /\ cpc[c] = "Idle"
    /\ cpc' = [cpc EXCEPT ![c] = "Raw"]
    /\ sent' = [sent EXCEPT ![c] = @ \o bytes]
    /\ wire' = [wire EXCEPT ![c] = @ \o bytes]
    /\ UNCHANGED <<cname, crd, tx, stripVars, attachVars>>
    /\ UNCHANGED notStrip

\* The client drops its stream: the server reads what is in flight, then EOF.
ClientClose(c) ==
    /\ cpc[c] \in {"Connected", "Raw"}
    /\ tx[c] = "open"
    /\ crd[c] # "Waiting"
    /\ tx' = [tx EXCEPT ![c] = "closed"]
    /\ UNCHANGED <<cpc, cname, crd, sent, wire, stripVars, attachVars>>
    /\ UNCHANGED notStrip

(***************************************************************************)
(* Strip::attach (strip.rs) with read_json and read (connection.rs).       *)
(***************************************************************************)
\* attach is called with an accepted stream: let mut buffer = Vec::new().
Attach(c) ==
    /\ apc[c] = "NotAttached"
    /\ cpc[c] # "Idle"
    /\ apc' = [apc EXCEPT ![c] = "Accepted"]
    /\ buffer' = [buffer EXCEPT ![c] = <<>>]
    /\ UNCHANGED <<msize, route, result, invoked, hung, hres, stripVars,
                   clientVars>>
    /\ UNCHANGED notStrip

\* read: stream.read_u64() completes, then the buffer is resized.
ReadU64(c) ==
    /\ apc[c] = "Accepted"
    /\ tx[c] # "reset"
    /\ Len(wire[c]) >= 8
    /\ LET p == SubSeq(wire[c], 1, 8) IN
         /\ wire' = [wire EXCEPT ![c] = Drop(@, 8)]
         /\ IF ResizeFails(p)
            THEN /\ apc' = [apc EXCEPT ![c] = "Panicked"]
                 /\ UNCHANGED <<msize, buffer>>
            ELSE /\ apc' = [apc EXCEPT ![c] = "Prefix"]
                 /\ msize' = [msize EXCEPT ![c] = U64Value(p)]
                 /\ buffer' = [buffer EXCEPT ![c] = Resize(@, U64Value(p))]
    /\ UNCHANGED <<route, result, invoked, hung, hres, stripVars, cpc, cname,
                   crd, sent, tx>>
    /\ UNCHANGED notStrip

\* Faulty variant of the failing read: the failure also empties the table.
ReadFail_clears(c) ==
    /\ \/ apc[c] = "Accepted" /\ ReadErrors(tx[c], wire[c], 8)
       \/ apc[c] = "Prefix" /\ ReadErrors(tx[c], wire[c], msize[c])
    /\ apc' = [apc EXCEPT ![c] = "Done"]
    /\ result' = [result EXCEPT ![c] = "ErrIo"]
    /\ plugs' = [n \in Names |-> NoHandler]
    /\ UNCHANGED <<msize, buffer, route, invoked, hung, hres, declared, nplugs,
                   clientVars>>
    /\ UNCHANGED notStrip

\* read: read_u64 or read_exact fails; read_json and attach pass the error on.
ReadFail(c) ==
    /\ \/ apc[c] = "Accepted" /\ ReadErrors(tx[c], wire[c], 8)
       \/ apc[c] = "Prefix" /\ ReadErrors(tx[c], wire[c], msize[c])
    /\ apc' = [apc EXCEPT ![c] = "Done"]
    /\ result' = [result EXCEPT ![c] = "ErrIo"]
    /\ UNCHANGED <<msize, buffer, route, invoked, hung, hres, stripVars,
                   clientVars>>
    /\ UNCHANGED notStrip

\* read: read_exact completes; read_json: serde_json::from_reader on
\* &buffer[..message_size], an error ending attach.
ReadExact(c) ==
    /\ apc[c] = "Prefix"
    /\ tx[c] # "reset"
    /\ Len(wire[c]) >= msize[c]
    /\ LET buf == ReadExactInto(buffer[c], msize[c], wire[c])
           data == from_reader_str(Slice(buf, msize[c]))
       IN /\ buffer' = [buffer EXCEPT ![c] = buf]
          /\ wire' = [wire EXCEPT ![c] = Drop(@, msize[c])]
          /\ IF data.ok
             THEN /\ apc' = [apc EXCEPT ![c] = "NameRead"]
                  /\ route' = [route EXCEPT ![c] = data.val]
                  /\ UNCHANGED result
             ELSE /\ apc' = [apc EXCEPT ![c] = "Done"]
                  /\ result' = [result EXCEPT ![c] = "ErrIo"]
                  /\ UNCHANGED route
    /\ UNCHANGED <<msize, invoked, hung, hres, stripVars, cpc, cname, crd,
                   sent, tx>>
    /\ UNCHANGED notStrip

\* Faulty variant of the lookup: a route that is not registered is an error.
Lookup_unrouted_err(c) ==
    /\ apc[c] = "NameRead"
    /\ LET handler == get(plugs, route[c]) IN
         IF handler # NoHandler
         THEN /\ apc' = [apc EXCEPT ![c] = "HandlerRunning"]
              /\ invoked' = [invoked EXCEPT
                               ![c] = Append(@, [key |-> route[c],
                                                 handler |-> handler])]
              /\ \E h \in BOOLEAN : hung' = [hung EXCEPT ![c] = h]
              /\ UNCHANGED result
         ELSE /\ apc' = [apc EXCEPT ![c] = "Done"]
              /\ result' = [result EXCEPT ![c] = "ErrIo"]
              /\ UNCHANGED <<invoked, hung>>
    /\ UNCHANGED <<msize, buffer, route, hres, stripVars, clientVars>>
    /\ UNCHANGED notStrip

\* if let Some(handler) = self.plugs.get(route.as_str()) { (handler.0)(..) }
\* and Ok(()) when there is none.
Lookup(c) ==
    /\ apc[c] = "NameRead"
    /\ LET handler == get(plugs, route[c]) IN
         IF handler # NoHandler
         THEN /\ apc' = [apc EXCEPT ![c] = "HandlerRunning"]
              /\ invoked' = [invoked EXCEPT
                               ![c] = Append(@, [key |-> route[c],
                                                 handler |-> handler])]
              /\ \E h \in BOOLEAN : hung' = [hung EXCEPT ![c] = h]
              /\ UNCHANGED result
         ELSE /\ apc' = [apc EXCEPT ![c] = "Done"]
              /\ result' = [result EXCEPT ![c] = "Ok"]
              /\ UNCHANGED <<invoked, hung>>
    /\ UNCHANGED <<msize, buffer, route, hres, stripVars, clientVars>>
    /\ UNCHANGED notStrip

\* Faulty variant of the handler's completion: handlers run one at a time, a
\* handler completing only when no other one is running (as if attach held a
\* lock of the Strip across the handler).
HandlerReturn_serial(c, r) ==
    /\ apc[c] = "HandlerRunning"
    /\ ~hung[c]
    /\ \A d \in Conns \ {c} : apc[d] # "HandlerRunning"
    /\ apc' = [apc EXCEPT ![c] = "Done"]
    /\ result' = [result EXCEPT ![c] = r]
    /\ hres' = [hres EXCEPT ![c] = r]
    /\ UNCHANGED <<msize, buffer, route, invoked, hung, stripVars, clientVars>>
    /\ UNCHANGED notStrip

\* Faulty variant of the handler's completion: attach looks the route up
\* again when the handler failed.
HandlerReturn_retry(c, r) ==
    /\ apc[c] = "HandlerRunning"
    /\ ~hung[c]
    /\ hres' = [hres EXCEPT ![c] = r]
    /\ IF r = "Ok"
       THEN /\ apc' = [apc EXCEPT ![c] = "Done"]
            /\ result' = [result EXCEPT ![c] = r]
       ELSE /\ apc' = [apc EXCEPT ![c] = "NameRead"]
            /\ UNCHANGED result
    /\ UNCHANGED <<msize, buffer, route, invoked, hung, stripVars, clientVars>>
    /\ UNCHANGED notStrip

\* Faulty variant of the handler's completion: attach drops the handler's
\* result and returns Ok.
HandlerReturn_swallow(c, r) ==
    /\ apc[c] = "HandlerRunning"
    /\ ~hung[c]
    /\ apc' = [apc EXCEPT ![c] = "Done"]
    /\ result' = [result EXCEPT ![c] = "Ok"]
    /\ hres' = [hres EXCEPT ![c] = r]
    /\ UNCHANGED <<msize, buffer, route, invoked, hung, stripVars, clientVars>>
    /\ UNCHANGED notStrip

\* (handler.0)(client, buffer).await?; Ok(()): the handler's future completes
\* and attach returns its error or Ok.
HandlerReturn(c, r) ==
    /\ apc[c] = "HandlerRunning"
    /\ ~hung[c]
    /\ apc' = [apc EXCEPT ![c] = "Done"]
    /\ result' = [result EXCEPT ![c] = r]
    /\ hres' = [hres EXCEPT ![c] = r]
    /\ UNCHANGED <<msize, buffer, route, invoked, hung, stripVars, clientVars>>
    /\ UNCHANGED notStrip

(***************************************************************************)
(* The stream attach was given.  attach owns it: it is dropped, and so     *)
(* closed, when attach returns without having moved it into a handler, and *)
(* when attach unwinds.  What a handler does with its Connection is its    *)
(* own business.                                                           *)
(***************************************************************************)
\* Faulty variant of the drop: the stream outlives attach.
StreamDropped_leaked(c) == FALSE

StreamDropped(c) ==
    \/ apc[c] = "Panicked"
    \/ apc[c] = "Done" /\ invoked[c] = <<>>

\* The client waits for a response: Connection::read or read_bytes on its
\* end, up to the await of read_u64.
ClientRead(c) ==
    /\ cpc[c] \in {"Connected", "Raw"}
    /\ tx[c] = "open"
    /\ crd[c] = "None"
    /\ crd' = [crd EXCEPT ![c] = "Waiting"]
    /\ UNCHANGED <<cpc, cname, sent, wire, tx, stripVars, attachVars>>
    /\ UNCHANGED notStrip

\* read: read_u64 fails at the end of the stream; the client's read returns
\* the I/O error.
ClientReadEof(c) ==
    /\ crd[c] = "Waiting"
    /\ StreamDropped(c)
    /\ crd' = [crd EXCEPT ![c] = "Err"]
    /\ UNCHANGED <<cpc, cname, sent, wire, tx, stripVars, attachVars>>
    /\ UNCHANGED notStrip

Next ==
    \/ \E n \in Names, h \in Handlers : Plug(n, h)
    \/ \E c \in Conns, n \in ClientNames : Connect(c, n)
    \/ \E c \in Conns : SeizeWriteLen(c)
    \/ \E c \in Conns : SeizeWriteAll(c)
    \/ \E c \in Conns : SeizeFail(c)
    \/ \E c \in Conns, bytes \in RawWrites : RawSend(c, bytes)
    \/ \E c \in Conns : ClientClose(c)
    \/ \E c \in Conns : Attach(c)
    \/ \E c \in Conns : ReadU64(c)
    \/ \E c \in Conns : ReadFail(c)
    \/ \E c \in Conns : ReadExact(c)
    \/ \E c \in Conns : Lookup(c)
    \/ \E c \in Conns, r \in {"Ok", "ErrHandler"} : HandlerReturn(c, r)

\* The connection of the framing specification, left alone.
ConnParked ==
    /\ kchan = <<"Raw">>
    /\ kname = NoName
    /\ kwpc = "Closed"
    /\ kcur = <<>>
    /\ kwlog = <<>>
    /\ ksent = <<>>
    /\ kwire = <<>>
    /\ ktx = "closed"
    /\ krpc = "Ended"
    /\ kmode = "none"
    /\ kbuf = <<>>
    /\ ksize = 0
    /\ krlog = <<>>

Init == StripIdle /\ ConnParked /\ DuplexParked /\ JoinParked

Spec == Init /\ [][Next]_allVars

(***************************************************************************)
(* One connection, frame by frame.  The client seizes it with its Plug     *)
(* (plug.rs) and then writes frames with Connection::write and             *)
(* Connection::write_bytes; attach reads the handshake into a new buffer   *)
(* and hands stream and buffer to the handler (Connection::new), which     *)
(* reads with Connection::read and Connection::read_bytes.                 *)
(***************************************************************************)
RawChan == <<"Raw">>

PayloadBytes == {Ascii.a, Ascii.b}

Payloads == UNION { [1..n -> PayloadBytes] : n \in 0..MaxLen }

\* A payload that is no JSON value of any type of the model.
Garbage == <<Ascii.a>>

AppFrames(log) == Len(SelectSeq(log, LAMBDA w : w.kind # "handshake"))

ConnInit ==
    /\ StripIdle
    /\ DuplexParked
    /\ JoinParked
    /\ kchan \in Types \cup {RawChan}
    /\ kname \in {NameA, NameQ}
    /\ kwpc = "Seizing"
    /\ kcur = <<>>
    /\ kwlog = <<>>
    /\ ksent = <<>>
    /\ kwire = <<>>
    /\ ktx = "open"
    /\ krpc = "AwaitPrefix"
    /\ kmode = "handshake"
    /\ kbuf = <<>>
    /\ ksize = 0
    /\ krlog = <<>>

\* Faulty variant of write's prefix: the length counts the prefix too.
WritePrefix_counts_itself(bytes) == U64BE(Len(bytes) + 8)

\* write: stream.write_u64(bytes.len() as u64)
WritePrefix(bytes) == U64BE(Len(bytes))

\* The first await of write, for the frame w.
WriteLen(w) ==
    /\ ktx = "open"
    /\ ksent' = ksent \o WritePrefix(w.payload)
    /\ kwire' = kwire \o WritePrefix(w.payload)
    /\ kcur' = <<w>>
    /\ kwpc' = "LenWritten"
    /\ UNCHANGED <<kchan, kname, kwlog, ktx, krpc, kmode, kbuf, ksize, krlog>>
    /\ UNCHANGED notConn

\* Plug::seize: write_json(&mut stream, self.name)
ConnSeize ==
    /\ kwpc = "Seizing"
    /\ WriteLen([kind |-> "handshake", payload |-> write_json_bytes(kname),
                 val |-> kname])

\* Connection::write: write_json(&mut self.stream, input)
ConnWrite(v) ==
    /\ kwpc = "Ready"
    /\ kchan # RawChan
    /\ AppFrames(kwlog) < MaxFrames
    /\ WriteLen([kind |-> "typed", payload |-> to_vec(kchan, v), val |-> v])

\* Connection::write_bytes: write(&mut self.stream, input)
ConnWriteBytes(d) ==
    /\ kwpc = "Ready"
    /\ AppFrames(kwlog) < MaxFrames
    /\ WriteLen([kind |-> "bytes", payload |-> d, val |-> d])

\* The second and third await of write: write_all, flush; the write returns
\* Ok (and so does seize, with Connection::seize(stream)).
ConnWriteAll ==
    /\ kwpc = "LenWritten"
    /\ ktx = "open"
    /\ ksent' = ksent \o kcur[1].payload
    /\ kwire' = kwire \o kcur[1].payload
    /\ kwlog' = Append(kwlog, kcur[1])
    /\ kcur' = <<>>
    /\ kwpc' = "Ready"
    /\ UNCHANGED <<kchan, kname, ktx, krpc, kmode, kbuf, ksize, krlog>>
    /\ UNCHANGED notConn

\* The client drops the stream, between two writes or in the middle of one
\* (the write's future is dropped, or the process ends).
ConnClose ==
    /\ kwpc \in {"Ready", "LenWritten"}
    /\ ktx = "open"
    /\ ktx' = "closed"
    /\ kwpc' = "Closed"
    /\ UNCHANGED <<kchan, kname, kcur, kwlog, ksent, kwire, krpc, kmode, kbuf,
                   ksize, krlog>>
    /\ UNCHANGED notConn

\* A write fails with an I/O error; the stream is of no use after it.
ConnWriteFail ==
    /\ kwpc \in {"Seizing", "LenWritten"}
    /\ ktx = "open"
    /\ ktx' = "reset"
    /\ kwpc' = "Closed"
    /\ UNCHANGED <<kchan, kname, kcur, kwlog, ksent, kwire, krpc, kmode, kbuf,
                   ksize, krlog>>
    /\ UNCHANGED notConn

\* The handler calls Connection::read_bytes or Connection::read.
ConnStartRead(mode) ==
    /\ krpc = "Idle"
    /\ Len(krlog) <= MaxFrames + 1
    /\ mode = "typed" => kchan # RawChan
    /\ krpc' = "AwaitPrefix"
    /\ kmode' = mode
    /\ UNCHANGED <<kchan, kname, kwpc, kcur, kwlog, ksent, kwire, ktx, kbuf,
                   ksize, krlog>>
    /\ UNCHANGED notConn

\* read: stream.read_u64() completes, then the buffer is resized.
ConnReadU64 ==
    /\ krpc = "AwaitPrefix"
    /\ ktx # "reset"
    /\ Len(kwire) >= 8
    /\ LET p == SubSeq(kwire, 1, 8) IN
         /\ kwire' = Drop(kwire, 8)
         /\ IF ResizeFails(p)
            THEN /\ krpc' = "Panicked"
                 /\ UNCHANGED <<ksize, kbuf>>
            ELSE /\ krpc' = "AwaitPayload"
                 /\ ksize' = U64Value(p)
                 /\ kbuf' = Resize(kbuf, U64Value(p))
    /\ UNCHANGED <<kchan, kname, kwpc, kcur, kwlog, ksent, ktx, kmode, krlog>>
    /\ UNCHANGED notConn

\* What the read in progress returns once read_exact has filled the buffer:
\* read_bytes the slice, read and read_json the decoded slice.
ReadResult(mode, buf, n) ==
    IF mode = "bytes"
    THEN [kind |-> mode, ok |-> TRUE, val |-> Slice(buf, n), why |-> ""]
    ELSE LET data == IF mode = "handshake"
                     THEN from_reader_str(Slice(buf, n))
                     ELSE from_reader(kchan, Slice(buf, n))
         IN IF data.ok
            THEN [kind |-> mode, ok |-> TRUE, val |-> data.val, why |-> ""]
            ELSE [kind |-> mode, ok |-> FALSE, val |-> <<>>, why |-> "data"]

\* Where the reader is after a read returned: attach ends on a failed
\* handshake; the handler's Connection can be read again.
AfterRead(mode, ok) == IF mode = "handshake" /\ ~ok THEN "Ended" ELSE "Idle"

\* Faulty variant of the completed read: at the end of the stream it returns
\* with the bytes that did arrive (read in place of read_exact).
ConnReadExact_partial ==
    /\ krpc = "AwaitPayload"
    /\ ktx # "reset"
    /\ Len(kwire) >= ksize \/ ktx = "closed"
    /\ LET got == IF Len(kwire) >= ksize THEN ksize ELSE Len(kwire)
           buf == ReadExactInto(kbuf, got, kwire)
           res == ReadResult(kmode, buf, ksize)
       IN /\ kbuf' = buf
          /\ kwire' = Drop(kwire, got)
          /\ krlog' = Append(krlog, res)
          /\ krpc' = AfterRead(kmode, res.ok)
    /\ UNCHANGED <<kchan, kname, kwpc, kcur, kwlog, ksent, ktx, kmode, ksize>>
    /\ UNCHANGED notConn

\* read: read_exact completes; the read returns.
ConnReadExact ==
    /\ krpc = "AwaitPayload"
    /\ ktx # "reset"
    /\ Len(kwire) >= ksize
    /\ LET buf == ReadExactInto(kbuf, ksize, kwire)
           res == ReadResult(kmode, buf, ksize)
       IN /\ kbuf' = buf
          /\ kwire' = Drop(kwire, ksize)
          /\ krlog' = Append(krlog, res)
          /\ krpc' = AfterRead(kmode, res.ok)
    /\ UNCHANGED <<kchan, kname, kwpc, kcur, kwlog, ksent, ktx, kmode, ksize>>
    /\ UNCHANGED notConn

\* read: read_u64 or read_exact fails with an I/O error.
ConnReadFail ==
    /\ \/ krpc = "AwaitPrefix" /\ ReadErrors(ktx, kwire, 8)
       \/ krpc = "AwaitPayload" /\ ReadErrors(ktx, kwire, ksize)
    /\ krlog' = Append(krlog, [kind |-> kmode, ok |-> FALSE, val |-> <<>>,
                                why |-> "io"])
    /\ krpc' = AfterRead(kmode, FALSE)
    /\ UNCHANGED <<kchan, kname, kwpc, kcur, kwlog, ksent, kwire, ktx, kmode,
                   kbuf, ksize>>
    /\ UNCHANGED notConn

ConnNext ==
    \/ ConnSeize
    \/ \E v \in (IF kchan = RawChan THEN {} ELSE ValuesOf(kchan)) : ConnWrite(v)
    \/ \E d \in (IF kchan = RawChan THEN Payloads ELSE {Garbage}) :
         ConnWriteBytes(d)
    \/ ConnWriteAll
    \/ ConnClose
    \/ ConnWriteFail
    \/ \E mode \in {"bytes", "typed"} : ConnStartRead(mode)
    \/ ConnReadU64
    \/ ConnReadExact
    \/ ConnReadFail

ConnSpec == ConnInit /\ [][ConnNext]_allVars

(***************************************************************************)
(* What the properties speak of.                                           *)
(***************************************************************************)
\* The handshake the client of c put on the stream, decoded from the bytes it
\* wrote: [ok |-> TRUE, val |-> name] once a whole frame holding one JSON
\* string has been written, [ok |-> FALSE] otherwise.
HandshakeOf(c) ==
    LET s == sent[c] IN
    IF Len(s) < 8 THEN DecodeErr
    ELSE LET p == SubSeq(s, 1, 8) IN
      IF ResizeFails(p) \/ Len(s) < 8 + U64Value(p) THEN DecodeErr
      ELSE from_reader_str(SubSeq(s, 9, 8 + U64Value(p)))

Registered(name) == name \in Names /\ plugs[name] # NoHandler

\* read returns Ok in the next step of attach on c.
ReadSucceeds(c) ==
    apc[c] = "Prefix" /\ tx[c] # "reset" /\ Len(wire[c]) >= msize[c]

(***************************************************************************)
(* C1: when the handshake frame decodes to a registered name N, attach     *)
(* calls the handler stored under N, once, and over its whole life calls   *)
(* no other handler.                                                       *)
(***************************************************************************)
C1_Step(c) ==
    LET hs == HandshakeOf(c) IN
    /\ (apc[c] = "NameRead" /\ apc'[c] # "NameRead"
          /\ hs.ok /\ Registered(hs.val))
       => /\ invoked[c] = <<>>
          /\ invoked'[c] = <<[key |-> hs.val, handler |-> plugs[hs.val]]>>
          /\ apc'[c] = "HandlerRunning"
    /\ apc[c] # "NameRead" => invoked'[c] = invoked[c]
    /\ (ReadSucceeds(c) /\ apc'[c] # apc[c] /\ hs.ok)
       => apc'[c] = "NameRead" /\ route'[c] = hs.val

C1_RoutedToNamedHandlerOnly == [][\A c \in Conns : C1_Step(c)]_vars

\* A connection is routed to the handler of its name while another name is
\* registered with another handler.
C1_Witness ==
    \E c \in Conns :
      /\ apc[c] = "HandlerRunning"
      /\ invoked[c] = <<[key |-> NameQ, handler |-> plugs[NameQ]]>>
      /\ cname[c] = NameQ
      /\ plugs[NameA] \notin {NoHandler, plugs[NameQ]}

(***************************************************************************)
(* C2: when the handshake frame is read and decodes to a name that is not  *)
(* registered, attach calls no handler and returns Ok.                     *)
(***************************************************************************)
C2_Step(c) ==
    LET hs == HandshakeOf(c) IN
    /\ (ReadSucceeds(c) /\ apc'[c] # apc[c] /\ hs.ok)
       => apc'[c] = "NameRead" /\ result'[c] = "None"
    /\ (apc[c] = "NameRead" /\ apc'[c] # "NameRead"
          /\ hs.ok /\ ~Registered(hs.val))
       => /\ apc'[c] = "Done"
          /\ result'[c] = "Ok"
          /\ invoked'[c] = <<>>
    /\ (apc[c] = "Done" /\ apc'[c] = "Done")
       => result'[c] = result[c] /\ invoked'[c] = invoked[c]

C2_UnregisteredNameIsOk == [][\A c \in Conns : C2_Step(c)]_vars

\* An attach has ended with Ok and no handler called, for a name that is not
\* registered, while another name is.
C2_Witness ==
    \E c \in Conns :
      /\ apc[c] = "Done"
      /\ result[c] = "Ok"
      /\ invoked[c] = <<>>
      /\ HandshakeOf(c).ok /\ HandshakeOf(c).val = NameB
      /\ Registered(NameA)

(***************************************************************************)
(* C3: the handler stored under a name is the one of the last plug call    *)
(* for that name, and an attach that names it calls that handler, not a    *)
(* replaced one.                                                           *)
(***************************************************************************)
C3_LastPlugWins ==
    /\ \A n \in Names : plugs[n] = declared[n]
    /\ \A c \in Conns :
         apc[c] = "HandlerRunning"
         => /\ Len(invoked[c]) = 1
            /\ invoked[c][1].key \in Names
            /\ invoked[c][1].handler = declared[invoked[c][1].key]

\* One connection was routed to the first handler of a name, the name was
\* plugged again, and a later connection is routed to the new handler.
C3_Witness ==
    \E c, d \in Conns :
      /\ apc[c] = "Done"
      /\ invoked[c] = <<[key |-> NameA, handler |-> "h1"]>>
      /\ apc[d] = "HandlerRunning"
      /\ invoked[d] = <<[key |-> NameA, handler |-> "h2"]>>
      /\ plugs[NameA] = "h2"

(***************************************************************************)
(* The scheduling of the server: every attach is a task of its own, and a  *)
(* task that can take a step is polled; so is a client whose read can      *)
(* return.  Nothing is assumed of what the clients write or of a handler   *)
(* that hangs.                                                             *)
(***************************************************************************)
AttachStep(c) ==
    \/ ReadU64(c)
    \/ ReadFail(c)
    \/ ReadExact(c)
    \/ Lookup(c)
    \/ \E r \in {"Ok", "ErrHandler"} : HandlerReturn(c, r)

\* The Strip once it is built and serving: some tables the plug calls of Spec
\* produce, and no further plug call.
BuiltTables ==
    { [n \in Names |-> IF n = NameA THEN "h1" ELSE NoHandler],
      [n \in Names |-> IF n = NameA THEN "h1" ELSE "h2"] }

ServingInit ==
    /\ plugs \in BuiltTables
    /\ declared = plugs
    /\ nplugs = MaxPlugs
    /\ cpc = [c \in Conns |-> "Idle"]
    /\ cname = [c \in Conns |-> NoName]
    /\ sent = [c \in Conns |-> <<>>]
    /\ wire = [c \in Conns |-> <<>>]
    /\ tx = [c \in Conns |-> "open"]
    /\ apc = [c \in Conns |-> "NotAttached"]
    /\ msize = [c \in Conns |-> 0]
    /\ buffer = [c \in Conns |-> <<>>]
    /\ route = [c \in Conns |-> NoName]
    /\ result = [c \in Conns |-> "None"]
    /\ invoked = [c \in Conns |-> <<>>]
    /\ hung = [c \in Conns |-> FALSE]
    /\ hres = [c \in Conns |-> "None"]
    /\ crd = [c \in Conns |-> "None"]
    /\ ConnParked
    /\ DuplexParked
    /\ JoinParked

ServingNext ==
    \/ \E c \in Conns, n \in ClientNames : Connect(c, n)
    \/ \E c \in Conns : SeizeWriteLen(c)
    \/ \E c \in Conns : SeizeWriteAll(c)
    \/ \E c \in Conns : SeizeFail(c)
    \/ \E c \in Conns, bytes \in RawWrites : RawSend(c, bytes)
    \/ \E c \in Conns : ClientClose(c)
    \/ \E c \in Conns : ClientRead(c)
    \/ \E c \in Conns : ClientReadEof(c)
    \/ \E c \in Conns : Attach(c)
    \/ \E c \in Conns : AttachStep(c)

FairSpec ==
    /\ ServingInit
    /\ [][ServingNext]_allVars
    /\ \A c \in Conns : WF_allVars(AttachStep(c))
    /\ \A c \in Conns : WF_allVars(ClientReadEof(c))

(***************************************************************************)
(* C7, as claimed: when the handshake cannot be read (the client closed or *)
(* the stream failed without a whole frame holding a JSON string having    *)
(* been written), attach, once it is over the handshake read, has returned *)
(* the I/O error and called no handler.                                    *)
(***************************************************************************)
HandshakeReadOver(c) == apc[c] \notin {"NotAttached", "Accepted", "Prefix"}

C7_HandshakeFailureIsError ==
    \A c \in Conns :
      (tx[c] \in {"closed", "reset"} /\ ~HandshakeOf(c).ok
         /\ HandshakeReadOver(c))
      => /\ apc[c] = "Done"
         /\ result[c] = "ErrIo"
         /\ invoked[c] = <<>>

\* C7, what the code does: the same, except that attach does not return at all
\* when the length prefix asks for a buffer that cannot exist.
C7_ErrorOrNoReturn ==
    \A c \in Conns :
      (tx[c] \in {"closed", "reset"} /\ ~HandshakeOf(c).ok
         /\ HandshakeReadOver(c))
      => /\ invoked[c] = <<>>
         /\ \/ apc[c] = "Done" /\ result[c] = "ErrIo"
            \/ /\ apc[c] = "Panicked" /\ result[c] = "None"
               /\ Len(sent[c]) >= 8 /\ ResizeFails(SubSeq(sent[c], 1, 8))

(***************************************************************************)
(* C8: while the handler of one connection hangs, any other connection an  *)
(* attach is serving, whose client wrote a handshake naming a registered    *)
(* name, is routed, and that attach returns unless its own handler hangs.   *)
(***************************************************************************)
Stuck(c) == apc[c] = "HandlerRunning" /\ hung[c]

Routable(d) ==
    /\ apc[d] \in {"Accepted", "Prefix", "NameRead", "HandlerRunning"}
    /\ HandshakeOf(d).ok
    /\ Registered(HandshakeOf(d).val)

C9_Step ==
    /\ (\E c \in Conns : apc'[c] # apc[c]) => plugs' = plugs
    /\ \A c \in Conns :
         (apc[c] = "NameRead" /\ apc'[c] # "NameRead" /\ Registered(route[c]))
         => /\ apc'[c] = "HandlerRunning"
            /\ invoked'[c] = <<[key |-> route[c], handler |-> plugs'[route[c]]]>>

C9_AttachLeavesStripAlone == [][C9_Step]_vars

\* One attach failed on its handshake, one did not return, or one was not
\* routed, and the other connection is routed to the handler of its name.
C9_Witness ==
    \E c, d \in Conns :
      /\ \/ apc[c] = "Done" /\ result[c] = "ErrIo"
      /\ apc[d] = "HandlerRunning"
      /\ Registered(route[d])
      /\ invoked[d] = <<[key |-> route[d], handler |-> plugs[route[d]]]>>

(***************************************************************************)
(* C10: seize writes the one handshake frame and returns; each of its      *)
(* writes can complete whatever the server has done with the connection,   *)
(* and once it has returned Ok the client has written that frame and       *)
(* nothing else.                                                           *)
(***************************************************************************)
C10_SeizeIsFireAndForget ==
    \A c \in Conns :
      /\ (cpc[c] = "Seizing" /\ tx[c] = "open") => ENABLED SeizeWriteLen(c)
      /\ (cpc[c] = "LenWritten" /\ tx[c] = "open") => ENABLED SeizeWriteAll(c)
      /\ cpc[c] = "Connected"
         => sent[c] = U64BE(Len(to_vec_str(cname[c]))) \o to_vec_str(cname[c])

\* seize has returned Ok although the name is not registered and attach has
\* ended without routing the connection.
C10_Witness ==
    \E c \in Conns :
      /\ cpc[c] = "Connected"
      /\ cname[c] = NameB
      /\ apc[c] = "Done"
      /\ invoked[c] = <<>>
      /\ Registered(NameA)

(***************************************************************************)
(* C4: the i-th read returns the payload of the i-th frame written, whole  *)
(* and unaltered, whatever the lengths of the frames read before it into   *)
(* the same buffer.                                                        *)
(***************************************************************************)
\* The frames written so far and the one being written: an empty frame is
\* whole on the wire as soon as its length is.
Written == kwlog \o kcur

C4_ReadsReturnPayloadsInOrder ==
    \A i \in 1..Len(krlog) :
      (krlog[i].kind = "bytes" /\ krlog[i].ok)
      => /\ i <= Len(Written)
         /\ krlog[i].val = Written[i].payload

\* After the handshake a frame of two bytes and then an empty frame were read
\* into the same buffer, which still holds the bytes of the longer ones.
C4_Witness ==
    /\ Len(krlog) = 3
    /\ krlog[2].kind = "bytes" /\ krlog[2].ok /\ Len(krlog[2].val) = 2
    /\ krlog[3].kind = "bytes" /\ krlog[3].ok /\ krlog[3].val = <<>>
    /\ Len(kbuf) > 2

(***************************************************************************)
(* C5, as claimed: a typed read of a frame a typed write produced returns  *)
(* the value written, for every value of every type.                       *)
(***************************************************************************)
RoundTrips(i) ==
    (i <= Len(Written) /\ Written[i].kind = "typed"
       /\ krlog[i].kind = "typed" /\ krlog[i].why # "io")
    => krlog[i].ok /\ krlog[i].val = Written[i].val

C5_RoundTripOfEveryValue == \A i \in 1..Len(krlog) : RoundTrips(i)

(***************************************************************************)
(* What does hold: the same for the types whose values have JSON texts of  *)
(* their own: String, bool and Option<bool>.  Option<Option<bool>> has     *)
(* not: Some(None) is written as null, which is read as None.              *)
(***************************************************************************)
NestedOption(T) == Len(T) >= 2 /\ T[1] = "Opt" /\ T[2] = "Opt"

C5_RoundTripWithoutNestedOption ==
    (kchan # RawChan /\ ~NestedOption(kchan))
    => \A i \in 1..Len(krlog) : RoundTrips(i)

\* A string holding a quote has made the round trip.
RoundTripWitness ==
    \E i \in 1..Len(krlog) :
      /\ i <= Len(kwlog) /\ kwlog[i].kind = "typed"
      /\ krlog[i].kind = "typed" /\ krlog[i].ok
      /\ kchan = <<"Str">>
      /\ krlog[i].val = <<Ascii.quote>>
      /\ kwlog[i].payload = <<Ascii.quote, Ascii.backslash, Ascii.quote,
                              Ascii.quote>>

(***************************************************************************)
(* C6: the bytes on the wire are the frames written, in order, each the    *)
(* length of its payload as 8 big-endian bytes and then the payload; the   *)
(* first is the handshake, whose payload is the Plug's name as a JSON      *)
(* string (the name between quotes when it needs no escape), and no other  *)
(* frame is.                                                               *)
(***************************************************************************)
\* The big-endian prefix of a length below 256, written out.
BigEndian8(n) == <<0, 0, 0, 0, 0, 0, 0, n>>

RECURSIVE FramesOf(_)
FramesOf(log) ==
    IF log = <<>> THEN <<>>
    ELSE BigEndian8(Len(Head(log).payload)) \o Head(log).payload
           \o FramesOf(Tail(log))

QuotedName(name) ==
    IF name = NameQ
    THEN <<Ascii.quote, Ascii.backslash, Ascii.quote, Ascii.quote>>
    ELSE <<Ascii.quote>> \o name \o <<Ascii.quote>>

C6_WireIsHandshakeThenFrames ==
    /\ ksent = FramesOf(kwlog)
                 \o (IF kcur = <<>> THEN <<>>
                     ELSE BigEndian8(Len(kcur[1].payload)))
    /\ \A i \in 1..Len(kwlog) :
         IF i = 1
         THEN /\ kwlog[i].kind = "handshake"
              /\ kwlog[i].payload = QuotedName(kname)
         ELSE kwlog[i].kind # "handshake"
    /\ kcur # <<>> => (kcur[1].kind = "handshake" <=> kwlog = <<>>)

\* The handshake of a name without escapes and two application frames are on
\* the wire.
C6_Witness ==
    /\ Len(kwlog) = 3
    /\ kname = NameA
    /\ Len(kwlog[1].payload) = Len(kname) + 2
    /\ ksent = <<0, 0, 0, 0, 0, 0, 0, 3, Ascii.quote, Ascii.a, Ascii.quote>>
                 \o FramesOf(Tail(kwlog))
    /\ Len(kwlog[2].payload) = 2

(***************************************************************************)
(* C11, as claimed: once a typed read has failed because the bytes of its  *)
(* frame do not decode, no later read of the connection returns a frame.   *)
(***************************************************************************)
DecodeFailed(i) == krlog[i].kind = "typed" /\ krlog[i].why = "data"

C11_DecodeErrorIsFatal ==
    \A i, j \in 1..Len(krlog) :
      (i < j /\ DecodeFailed(i)) => ~krlog[j].ok

\* What the code does: the frame that did not decode has been consumed whole,
\* and the read after it returns the frame written after it.
C11_MalformedFrameIsSkipped ==
    \A i, j \in 1..Len(krlog) :
      (i < j /\ DecodeFailed(i) /\ krlog[j].kind = "bytes" /\ krlog[j].ok)
      => /\ j <= Len(Written)
         /\ krlog[j].val = Written[j].payload

(***************************************************************************)
(* C13: no step makes the reader's buffer shorter, and after every frame   *)
(* read so far the buffer is at least as long as that frame.               *)
(***************************************************************************)
C13_Step ==
    /\ Len(kbuf') >= Len(kbuf)
    /\ \A i \in 1..Len(krlog') :
         (krlog'[i].why # "io" /\ i <= Len(Written'))
         => Len(kbuf') >= Len(Written'[i].payload)

C13_BufferNeverShrinks == [][C13_Step]_allVars

\* Frames of 4, 2 and 1 bytes have been read in that order and the buffer is
\* still 4 bytes long.
C13_Witness ==
    /\ Len(krlog) = 3
    /\ \A i \in 1..3 : krlog[i].why # "io"
    /\ Len(kwlog) >= 3
    /\ Len(kwlog[1].payload) = 4
    /\ Len(kwlog[2].payload) = 2
    /\ Len(kwlog[3].payload) = 1
    /\ Len(kbuf) = 4

(***************************************************************************)
(* C16: the handshake read of attach takes the handshake frame off the     *)
(* stream and nothing more, and the first read of the handler's connection *)
(* returns the first frame the client wrote after the handshake: its       *)
(* payload, or the value it decodes to, and so no byte of the handshake    *)
(* that is still in the buffer.                                            *)
(***************************************************************************)
C16_HandshakeReadTakesOneFrame ==
    /\ (Len(krlog) = 1 /\ krlog[1].why # "io" /\ krpc = "Idle")
       => /\ krlog[1].kind = "handshake"
          /\ kwire = SubSeq(ksent, 8 + Len(Written[1].payload) + 1, Len(ksent))
    /\ (Len(krlog) >= 2 /\ krlog[2].why # "io")
       => /\ krlog[1].kind = "handshake" /\ krlog[1].ok
          /\ Len(Written) >= 2
          /\ Written[2].kind # "handshake"
          /\ krlog[2].kind = "bytes" => krlog[2].val = Written[2].payload
          /\ krlog[2].kind = "typed"
             => LET data == from_reader(kchan, Written[2].payload) IN
                /\ krlog[2].ok = data.ok
                /\ data.ok => krlog[2].val = data.val

\* The handler has read a first frame of one byte while the buffer it was
\* handed still holds the end of a handshake of four bytes.
C16_Witness ==
    /\ Len(krlog) = 2
    /\ kname = NameQ
    /\ krlog[2].kind = "bytes" /\ krlog[2].ok
    /\ krlog[2].val = <<Ascii.b>>
    /\ kbuf = <<Ascii.b, Ascii.backslash, Ascii.quote, Ascii.quote>>

(***************************************************************************)
(* C18: a read returns a frame only if the whole frame was sent, prefix    *)
(* and all the bytes the prefix announces, and read_bytes then returns     *)
(* exactly that many bytes; a read waiting on a closed stream that holds   *)
(* less than what it waits for can only return the I/O error.              *)
(***************************************************************************)
\* The i first frames were written in full.
FramesSent(i) ==
    /\ i <= Len(Written)
    /\ Len(FramesOf(SubSeq(Written, 1, i))) <= Len(ksent)

Rank(pc) ==
    CASE pc = "NotAttached" -> 0
      [] pc = "Accepted" -> 1
      [] pc = "Prefix" -> 2
      [] pc = "NameRead" -> 3
      [] pc = "HandlerRunning" -> 4
      [] OTHER -> 5

C15_Step(c) ==
    /\ apc'[c] # apc[c] => Rank(apc'[c]) > Rank(apc[c])
    /\ apc'[c] = "HandlerRunning" /\ apc[c] # "HandlerRunning"
       => apc[c] = "NameRead"
    /\ apc'[c] = "NameRead" /\ apc[c] # "NameRead" => apc[c] = "Prefix"
    /\ invoked'[c] # invoked[c]
       => /\ apc[c] = "NameRead" /\ apc'[c] = "HandlerRunning"
          /\ invoked[c] = <<>> /\ Len(invoked'[c]) = 1
          /\ Len(sent[c]) - Len(wire[c]) = 8 + msize[c]
          /\ HandshakeOf(c).ok /\ route[c] = HandshakeOf(c).val
          /\ Registered(route[c])
    /\ (apc[c] = "NameRead" /\ apc'[c] = "Done")
       => ~Registered(route[c]) /\ invoked'[c] = <<>>
    /\ apc[c] = "Done"
       => /\ apc'[c] = "Done"
          /\ result'[c] = result[c]
          /\ invoked'[c] = invoked[c]

C15_AttachMovesForwardOnly == [][\A c \in Conns : C15_Step(c)]_vars

\* One attach is Done after its handler failed, the handler called once, and
\* another is Done without a handler.
C15_Witness ==
    \E c, d \in Conns :
      /\ apc[c] = "Done" /\ Len(invoked[c]) = 1 /\ hres[c] = "ErrHandler"
      /\ apc[d] = "Done" /\ invoked[d] = <<>> /\ route[d] = NameB

(***************************************************************************)
(* C17: a routed attach returns what its handler returned, the handler's   *)
(* error or Ok, and not before the handler has; an attach that called no   *)
(* handler returns Ok or the error of the handshake through the same       *)
(* result.                                                                 *)
(***************************************************************************)
C17_AttachReturnsHandlerResult ==
    \A c \in Conns :
      /\ (apc[c] = "Done" /\ invoked[c] # <<>>)
         => result[c] = hres[c] /\ hres[c] \in {"Ok", "ErrHandler"}
      /\ apc[c] = "HandlerRunning" => result[c] = "None" /\ hres[c] = "None"
      /\ (apc[c] = "Done" /\ invoked[c] = <<>>)
         => result[c] \in {"Ok", "ErrIo"} /\ hres[c] = "None"

\* One attach has returned its handler's error and another the error of its
\* handshake.
C17_Witness ==
    \E c, d \in Conns :
      /\ apc[c] = "Done" /\ invoked[c] # <<>>
      /\ hres[c] = "ErrHandler" /\ result[c] = "ErrHandler"
      /\ apc[d] = "Done" /\ result[d] = "ErrIo"

(***************************************************************************)
(* C19: a client that waits for a response on a connection whose attach    *)
(* has returned without calling a handler gets the I/O error of the end of *)
(* the stream.                                                             *)
(***************************************************************************)
Unrouted(c) == apc[c] = "Done" /\ invoked[c] = <<>>

C19_UnroutedClientGetsEof ==
    \A c \in Conns : (crd[c] = "Waiting" /\ Unrouted(c)) ~> crd[c] = "Err"

\* A client of an unregistered name has got the error while waiting for a
\* response, and so has one whose handshake did not decode.
C19_Witness ==
    \E c, d \in Conns :
      /\ crd[c] = "Err" /\ result[c] = "Ok" /\ cname[c] = NameB
      /\ Unrouted(c)
      /\ crd[d] = "Err" /\ result[d] = "ErrIo" /\ tx[d] = "open"
      /\ Unrouted(d)

(***************************************************************************)
(* A routed connection, value by value.  Plug<I, O>::seize returns a       *)
(* Connection<I, O> to the client (plug.rs); Strip::plug wraps a handler   *)
(* that takes a Connection<O, I> (strip.rs); a Connection<A, B> writes A   *)
(* with write_json and reads B with read_json (connection.rs).             *)
(***************************************************************************)
DuplexTypes == {<<"Str">>, <<"Bool">>}

\* The values a side writes: two of each type.
DuplexValuesOf(T) == IF T = <<"Str">> THEN {NameA, NameQ} ELSE ValuesOf(T)

\* pub async fn seize(self, ..) -> io::Result<Connection<I, O>>
SeizedTypes(plug) == [writes |-> plug.I, reads |-> plug.O]

\* Faulty variant of the handler's signature: the types are not swapped.
HandlerTypes_unswapped(plug) == [writes |-> plug.I, reads |-> plug.O]

\* handler: impl Fn(Connection<O, I>) -> F
HandlerTypes(plug) == [writes |-> plug.O, reads |-> plug.I]

DuplexInit ==
    /\ StripIdle
    /\ ConnParked
    /\ JoinParked
    /\ dplug \in [I : DuplexTypes, O : DuplexTypes]
    /\ dup = <<>>
    /\ ddown = <<>>
    /\ dhread = <<>>
    /\ dcread = <<>>

\* Connection::write on an end whose input type is T.
TypedFrame(T, v) == [type |-> T, val |-> v, payload |-> to_vec(T, v)]

\* Connection::read on an end whose output type is T, of the frame f.
TypedRead(T, f) ==
    LET data == from_reader(T, f.payload) IN
    IF data.ok THEN [type |-> T, ok |-> TRUE, val |-> data.val]
    ELSE [type |-> T, ok |-> FALSE, val |-> <<>>]

ClientTypedWrite(v) ==
    /\ Len(dup) < MaxFrames
    /\ dup' = Append(dup, TypedFrame(SeizedTypes(dplug).writes, v))
    /\ UNCHANGED <<dplug, ddown, dhread, dcread>>
    /\ UNCHANGED notDuplex

HandlerTypedWrite(v) ==
    /\ Len(ddown) < MaxFrames
    /\ ddown' = Append(ddown, TypedFrame(HandlerTypes(dplug).writes, v))
    /\ UNCHANGED <<dplug, dup, dhread, dcread>>
    /\ UNCHANGED notDuplex

HandlerTypedRead ==
    /\ Len(dhread) < Len(dup)
    /\ dhread' = Append(dhread, TypedRead(HandlerTypes(dplug).reads,
                                          dup[Len(dhread) + 1]))
    /\ UNCHANGED <<dplug, dup, ddown, dcread>>
    /\ UNCHANGED notDuplex

ClientTypedRead ==
    /\ Len(dcread) < Len(ddown)
    /\ dcread' = Append(dcread, TypedRead(SeizedTypes(dplug).reads,
                                          ddown[Len(dcread) + 1]))
    /\ UNCHANGED <<dplug, dup, ddown, dhread>>
    /\ UNCHANGED notDuplex

DuplexNext ==
    \/ \E v \in DuplexValuesOf(SeizedTypes(dplug).writes) : ClientTypedWrite(v)
    \/ \E v \in DuplexValuesOf(HandlerTypes(dplug).writes) :
         HandlerTypedWrite(v)
    \/ HandlerTypedRead
    \/ ClientTypedRead

DuplexSpec == DuplexInit /\ [][DuplexNext]_allVars

(***************************************************************************)
(* C14: on the connection of a Plug<I, O> every typed frame from client to *)
(* server is the encoding of a value of I and is read as I by the handler, *)
(* and every typed frame from server to client is the encoding of a value  *)
(* of O and is read as O by the client.                                    *)
(***************************************************************************)
Carries(log, T) ==
    \A i \in 1..Len(log) :
      /\ log[i].type = T
      /\ log[i].payload = to_vec(T, log[i].val)

ReadsAs(rlog, wlog, T) ==
    \A i \in 1..Len(rlog) :
      /\ rlog[i].type = T
      /\ wlog[i].type = T
      /\ rlog[i].ok
      /\ rlog[i].val = wlog[i].val

C14_DirectionsAreSwapped ==
    /\ Carries(dup, dplug.I)
    /\ Carries(ddown, dplug.O)
    /\ ReadsAs(dhread, dup, dplug.I)
    /\ ReadsAs(dcread, ddown, dplug.O)

\* On a Plug<String, bool> the handler has read a string and the client a
\* bool.
C14_Witness ==
    /\ dplug = [I |-> <<"Str">>, O |-> <<"Bool">>]
    /\ Len(dhread) = 2 /\ dhread[2].val = NameQ
    /\ Len(dcread) = 1 /\ dcread[1].val = <<"true">>

(***************************************************************************)
(* Connection::connect (connection.rs): io::copy_bidirectional on the two  *)
(* streams.  Each direction reads what its source has into a buffer and    *)
(* writes the buffer to the other stream; at the end of its source it      *)
(* shuts the other stream's write half down; both directions are polled    *)
(* each time the task is; an error of either ends the call.                *)
(***************************************************************************)
\* Faulty variant of the polling: the way back is copied once the way out is
\* done (one copy after the other).
CanCopy_sequential(d) == d = "ab" \/ jdone["ab"]

\* Whether the direction is polled.
CanCopy(d) == TRUE

JoinInit ==
    /\ StripIdle
    /\ ConnParked
    /\ DuplexParked
    /\ jpc = "Joined"
    /\ jin = [d \in Dirs |-> <<>>]
    /\ jeof = [d \in Dirs |-> FALSE]
    /\ jsrc = [d \in Dirs |-> <<>>]
    /\ jbuf = [d \in Dirs |-> <<>>]
    /\ jdst = [d \in Dirs |-> <<>>]
    /\ jdone = [d \in Dirs |-> FALSE]
    /\ jres = <<0, 0>>

\* The peer at the source of direction d sends a byte.
PeerSend(d, byte) ==
    /\ ~jeof[d]
    /\ Len(jin[d]) < MaxLen
    /\ jin' = [jin EXCEPT ![d] = Append(@, byte)]
    /\ jsrc' = [jsrc EXCEPT ![d] = Append(@, byte)]
    /\ UNCHANGED <<jpc, jeof, jbuf, jdst, jdone, jres>>
    /\ UNCHANGED notJoin

\* The peer at the source of direction d closes its end.
PeerShutdown(d) ==
    /\ ~jeof[d]
    /\ jeof' = [jeof EXCEPT ![d] = TRUE]
    /\ UNCHANGED <<jpc, jin, jsrc, jbuf, jdst, jdone, jres>>
    /\ UNCHANGED notJoin

\* The copy of direction d reads some of what its source has.
CopyRead(d) ==
    /\ jpc = "Joined"
    /\ CanCopy(d)
    /\ ~jdone[d]
    /\ \E k \in 1..Len(jsrc[d]) :
         /\ jbuf' = [jbuf EXCEPT ![d] = @ \o SubSeq(jsrc[d], 1, k)]
         /\ jsrc' = [jsrc EXCEPT ![d] = Drop(@, k)]
    /\ UNCHANGED <<jpc, jin, jeof, jdst, jdone, jres>>
    /\ UNCHANGED notJoin

\* The copy of direction d writes some of its buffer to the other stream.
CopyWrite(d) ==
    /\ jpc = "Joined"
    /\ CanCopy(d)
    /\ \E k \in 1..Len(jbuf[d]) :
         /\ jdst' = [jdst EXCEPT ![d] = @ \o SubSeq(jbuf[d], 1, k)]
         /\ jbuf' = [jbuf EXCEPT ![d] = Drop(@, k)]
    /\ UNCHANGED <<jpc, jin, jeof, jsrc, jdone, jres>>
    /\ UNCHANGED notJoin

\* The copy of direction d reads the end of its source, its buffer written:
\* it shuts the other stream's write half down and is done.
CopyEof(d) ==
    /\ jpc = "Joined"
    /\ CanCopy(d)
    /\ ~jdone[d]
    /\ jeof[d] /\ jsrc[d] = <<>> /\ jbuf[d] = <<>>
    /\ jdone' = [jdone EXCEPT ![d] = TRUE]
    /\ UNCHANGED <<jpc, jin, jeof, jsrc, jbuf, jdst, jres>>
    /\ UNCHANGED notJoin

CopyStep(d) == CopyRead(d) \/ CopyWrite(d) \/ CopyEof(d)

\* Both directions are done: connect returns Ok with the two byte counts.
JoinReturn ==
    /\ jpc = "Joined"
    /\ \A d \in Dirs : jdone[d]
    /\ jpc' = "Returned"
    /\ jres' = <<Len(jdst["ab"]), Len(jdst["ba"])>>
    /\ UNCHANGED <<jin, jeof, jsrc, jbuf, jdst, jdone>>
    /\ UNCHANGED notJoin

\* A read or a write of either stream fails: connect returns the error and
\* nothing more is copied.
JoinFail ==
    /\ jpc = "Joined"
    /\ jpc' = "Failed"
    /\ UNCHANGED <<jin, jeof, jsrc, jbuf, jdst, jdone, jres>>
    /\ UNCHANGED notJoin

JoinNext ==
    \/ \E d \in Dirs, byte \in PayloadBytes : PeerSend(d, byte)
    \/ \E d \in Dirs : PeerShutdown(d)
    \/ \E d \in Dirs : CopyStep(d)
    \/ JoinReturn
    \/ JoinFail

\* The task that runs connect is polled when a stream of either direction
\* can be read or written.  Nothing is assumed of the peers.
JoinSpec ==
    /\ JoinInit
    /\ [][JoinNext]_allVars
    /\ \A d \in Dirs : WF_allVars(CopyStep(d))

(***************************************************************************)
(* C12: while two connections are joined, the bytes sent into either side  *)
(* arrive at the other side, in order and unaltered, unless a stream       *)
(* fails, whatever the other direction does: nothing is asked of it, and   *)
(* it may stay idle for ever.                                              *)
(***************************************************************************)
Arrived(d, n) ==
    Len(jdst[d]) >= n /\ SubSeq(jdst[d], 1, n) = SubSeq(jin[d], 1, n)

C12_EachDirectionDelivers ==
    /\ [](\A d \in Dirs : jdst[d] \o jbuf[d] \o jsrc[d] = jin[d])
    /\ \A d \in Dirs : \A n \in 1..MaxLen :
         (jpc = "Joined" /\ Len(jin[d]) >= n)
           ~> (Arrived(d, n) \/ jpc = "Failed")

\* Two bytes sent into the side of `with` have arrived at the side of self
\* while nothing was ever sent the other way and that side is still open.
C12_Witness ==
    /\ jpc = "Joined"
    /\ jin["ab"] = <<>> /\ ~jeof["ab"]
    /\ Len(jin["ba"]) = 2
    /\ jdst["ba"] = jin["ba"]

====
